---- MODULE Spec2Model ----
(***************************************************************************)
(* Model of weather_forecast_scraper_v0.2.3.py: the dispatch of the page   *)
(* scraping jobs to a thread pool, the sequential Aeris batch, the two     *)
(* re-scraping loops over FAILED_URLS / FAILED_URLS_AERIS and the saving   *)
(* of one CSV per source.                                                  *)
(*                                                                         *)
(* A DataFrame is represented by the station it is tagged with (WS) and    *)
(* its number of rows.  A list of results is represented by its members    *)
(* that carry rows, in order, plus two flags telling whether the list      *)
(* also holds empty DataFrames or empty lists (pd.concat and isinstance    *)
(* cannot tell two such members apart, so their number is not kept).       *)
(***************************************************************************)
EXTENDS Integers, Sequences, FiniteSets, TLC

\* ---------------------------------------------------------------- bounds
MaxLoad == 4          \* rows of the roster + (row, source) fetches that ever fail
MaxConcurrent == 2    \* worker threads the scheduler runs at the same time
MaxFails == 1         \* a fetch that ever succeeds fails at most this often before
AerisIterCap == 101   \* iterations of the Aeris loop that are explored

\* ------------------------------------------------------ program constants
max_workers == 12
RescrapeLimit == 100
AerisRescrapeLimit == 100

NumLocs == MaxLoad - 1   \* rosters have 1..NumLocs rows

\* the smallest roster that submits more jobs than the pool has workers
PoolRows == max_workers \div 3 + 1

PageOrder == <<"Wunderground.com", "Weather.gov", "Weather.com">>
PageSet == {"Wunderground.com", "Weather.gov", "Weather.com"}
Sources == PageSet \cup {"Aeris"}
SaveOrder == <<"Wunderground.com", "Weather.gov", "Weather.com", "Aeris">>

\* an empty cell of the roster (pandas reads it as NaN)
NaN == <<"nan", 0>>
Url(s, k) == <<s, k>>

Variants == {"valid", "missing_page", "missing_api"}

\* Row k of a roster of n rows.  In the valid roster rows 1 and 2 name the
\* same Weather.gov and Aeris endpoint; in the others the last row lacks one.
RosterRow(k, v, n) ==
  [WS |-> k,
   url |-> [s \in Sources |->
             IF v = "missing_page" /\ k = n /\ s = "Weather.com" THEN NaN
             ELSE IF v = "missing_api" /\ k = n /\ s = "Aeris" THEN NaN
             ELSE IF v = "valid" /\ k = 2 /\ s \in {"Weather.gov", "Aeris"}
                  THEN Url(s, 1)
             ELSE Url(s, k)]]

Rosters == {[k \in 1..n |-> RosterRow(k, v, n)] : n \in 1..NumLocs, v \in Variants}

\* a roster of PoolRows rows, the last of which has no Weather.com URL
PoolRoster == [k \in 1..PoolRows |-> RosterRow(k, "missing_page", PoolRows)]

\* the smallest roster with more page jobs than iterations of the page loop
RetryRows == RescrapeLimit \div 3 + 1

\* a roster of RetryRows rows whose page URL cells are all empty
RetryRoster ==
  [k \in 1..RetryRows |->
     [WS |-> k, url |-> [s \in Sources |-> IF s = "Aeris" THEN Url(s, k) ELSE NaN]]]


VARIABLES
  roster,             \* loc_df: the rows read from the roster file
  pc,                 \* position of the main thread
  idx,                \* rows submitted / Aeris tuples done / save stage
  fut,                \* the futures of the pool, per (row, page source)
  FAILED_URLS,        \* list of (url, loc, source)
  FAILED_URLS_AERIS,  \* list of (url, loc, source)
  results,            \* weather_data_*_results, per source
  rescrape_count,
  log,                \* error and summary records printed / logged so far
  written,            \* the CSV written per source
  hist,               \* history: what happened to each (row, source) fetch
  fails,              \* history: failed fetches per (row, source), up to MaxFails + 1
  lastFetch,          \* history: the Fetcher invocation that returned last
  aeris_iterations,   \* history: iterations of the Aeris loop so far
  attempted,          \* history: sources whose to_csv was called
  save_raised,        \* history: the source whose save stage raised
  open_sessions,      \* browsers started by initialize_driver and not quit
  retried             \* history: the (row, source) fetches a loop ran again

vars == <<roster, pc, idx, fut, FAILED_URLS, FAILED_URLS_AERIS, results,
          rescrape_count, log, written, hist, fails, lastFetch,
          aeris_iterations, attempted, save_raised, open_sessions, retried>>

\* --------------------------------------------------------------- helpers
Range(q) == {q[p] : p \in DOMAIN q}
Min(a, b) == IF a < b THEN a ELSE b
Rows == 1..Len(roster)

\* the (row, source) fetches of the roster; the page ones are the jobs of the pool
AllJobs == Rows \X Sources
PageJobs == Rows \X PageSet

NRows(l) == l
Table(l) == [kind |-> "df", WS |-> l, n |-> NRows(l)]
EmptyDataFrame == [kind |-> "df", WS |-> 0, n |-> 0]
ListOf(x) == [kind |-> "list", WS |-> x.WS, n |-> x.n]

EmptyList == [items |-> <<>>, emptyDFs |-> FALSE, emptyLists |-> FALSE]

\* list.append(x)
ListAppend(r, x) ==
  IF x.n > 0 THEN [r EXCEPT !.items = Append(@, x)]
  ELSE IF x.kind = "df" THEN [r EXCEPT !.emptyDFs = TRUE]
  ELSE [r EXCEPT !.emptyLists = TRUE]

RECURSIVE SumRows(_)
SumRows(q) == IF q = <<>> THEN 0 ELSE Head(q).n + SumRows(Tail(q))

\* ------------------------------------------------------------ log records
RescrapingError(s, l) == [tag |-> "Re-scraping Error", src |-> s, loc |-> l, n |-> 0]
ScrapingError(s, l) == [tag |-> "Scraping Error", src |-> s, loc |-> l, n |-> 0]
FailedCount(c) == [tag |-> "failed URLs", src |-> "", loc |-> 0, n |-> c]
FailedAerisCount(c) == [tag |-> "failed Aeris URLs", src |-> "Aeris", loc |-> 0, n |-> c]
Saved(s, c) == [tag |-> "Saved", src |-> s, loc |-> 0, n |-> c]
SaveError == [tag |-> "SaveError", src |-> "", loc |-> 0, n |-> 0]

\* ------------------------------------------------------------- fetchers
\* A str compared with a (url, loc, source) tuple is never equal.
StrEqualsTuple(url, entry) == FALSE

\* url in FAILED_URLS
UrlInList(url, lst) == \E p \in DOMAIN lst : StrEqualsTuple(url, lst[p])

\* What the site does during one scrape_* call: get is the outcome of
\* driver.get + the 30 s wait, next the outcome of the wait for the next-day
\* button (Wunderground only), parse tells whether the page source read
\* afterwards parses.  Both waits swallow their exception.
PageEnvs(s, url) ==
  IF url = NaN
  THEN {[get |-> "error", next |-> "ready", parse |-> FALSE]}
  ELSE {e \in [get : {"ready", "timeout", "error"},
               next : {"ready", "timeout"},
               parse : BOOLEAN] :
          /\ e.get = "error" => ~e.parse
          /\ e.next = "timeout" => (s = "Wunderground.com" /\ e.parse)}

WaitExceeded(e) == e.get = "timeout" \/ e.next = "timeout"

\* requests.get(url, timeout=30) + parse_weather_data_aeris + column subset
AerisEnvs(url) == IF url = NaN THEN {FALSE} ELSE BOOLEAN

\* a try body that raises only what its handler does not catch
CatchesNoLoadError(e) == e.get # "error"

\* except Exception: the handler of scrape_* catches whatever the try body raises
Catches(e) == TRUE

\* what one scrape_* call comes to, for each thing the site may do: whether
\* it has rows (ok), whether a wait ran out, whether its handler caught the error
Outcomes(s, url, ok) ==
  {[waitExceeded |-> WaitExceeded(e), caught |-> ok \/ Catches(e)] :
     e \in {x \in PageEnvs(s, url) : x.parse = ok}}

\* return value of scrape_wunderground / scrape_weather_gov / scrape_weather_com
ScrapeReturn(l, ok) == IF ok THEN Table(l) ELSE EmptyDataFrame

\* an except branch that appends whether or not the call failed
FailedAfterScrapeAlways(lst, url, l, s, ok) == Append(lst, <<url, l, s>>)

\* an except branch that puts the entry at the head of the list
FailedAfterScrapeAtHead(lst, url, l, s, ok) ==
  IF ok \/ UrlInList(url, lst) THEN lst ELSE <<(<<url, l, s>>)>> \o lst

\* an except branch that writes back a list holding its own entry only
FailedAfterScrapeOverwrite(lst, url, l, s, ok) ==
  IF ok THEN lst ELSE <<(<<url, l, s>>)>>

\* the except branch of scrape_*: FAILED_URLS afterwards
FailedAfterScrape(lst, url, l, s, ok) ==
  IF ok \/ UrlInList(url, lst) THEN lst ELSE Append(lst, <<url, l, s>>)

\* the except branch of scrape_aeris: FAILED_URLS_AERIS afterwards (the
\* membership test reads FAILED_URLS)
FailedAfterAeris(lstA, lst, url, l, ok) ==
  IF ok \/ UrlInList(url, lst) THEN lstA ELSE Append(lstA, <<url, l, "Aeris">>)

\* an except branch of scrape_aeris that records the failure in both lists
TrackersAfterAerisShared(lstA, lst, url, l, ok) ==
  [aeris |-> FailedAfterAeris(lstA, lst, url, l, ok),
   page |-> IF ok THEN lst ELSE Append(lst, <<url, l, "Aeris">>)]

\* the two global lists after one iteration of scrape_aeris: FAILED_URLS is
\* read by the test and never written
TrackersAfterAeris(lstA, lst, url, l, ok) ==
  [aeris |-> FailedAfterAeris(lstA, lst, url, l, ok), page |-> lst]

\* the except branch of scrape_*: the error is printed and logged
LogAfterScrape(lg, l, s, ok) == IF ok THEN lg ELSE lg \cup {ScrapingError(s, l)}

\* ---------------------------------------------------- environment bound
Faulty == {j \in AllJobs : \/ hist[j] \in {"failed", "recovered"}
                           \/ roster[j[1]].url[j[2]] = NaN}
MayFail(j) == j \in Faulty \/ Cardinality(Faulty) + Len(roster) < MaxLoad

\* the outcomes of a fetch of job j that are explored
Explored(j, ok) == IF ok THEN fails[j] <= MaxFails ELSE MayFail(j)

FailsAfter(f, j, ok) ==
  [f EXCEPT ![j] = IF ok THEN @ ELSE Min(@ + 1, MaxFails + 1)]

HistAfter(h, j, ok) ==
  [h EXCEPT ![j] = IF ok THEN (IF @ = "pending" THEN "ok" ELSE "recovered")
                   ELSE "failed"]

\* what the Fetcher invocation that returned last did: whether one of its
\* waits ran out, whether it returned rows, whether its entry is in the list,
\* whether an entry of its URL and source is in the list
Fetched(e, ok, lst, entry) ==
  [waitExceeded |-> e, ok |-> ok, tracked |-> entry \in Range(lst),
   urlTracked |-> \E x \in Range(lst) : x[1] = entry[1] /\ x[3] = entry[3]]

\* ------------------------------------------------------------------ Init
\* the state when the with block is entered: init_drive holds one browser
Start ==
  /\ pc = "submit"
  /\ idx = 0
  /\ fut = [j \in PageJobs |-> "none"]
  /\ FAILED_URLS = <<>>
  /\ FAILED_URLS_AERIS = <<>>
  /\ results = [s \in Sources |-> EmptyList]
  /\ rescrape_count = 0
  /\ log = {}
  /\ written = [s \in Sources |-> [exists |-> FALSE, n |-> 0, WS |-> {}]]
  /\ hist = [j \in AllJobs |-> "pending"]
  /\ fails = [j \in AllJobs |-> 0]
  /\ lastFetch = [waitExceeded |-> FALSE, ok |-> TRUE, tracked |-> FALSE,
                  urlTracked |-> FALSE]
  /\ aeris_iterations = 0
  /\ attempted = {}
  /\ save_raised = "none"
  /\ open_sessions = 1
  /\ retried = {}

Init == roster \in Rosters /\ Start

\* ------------------------------------------------------------ thread pool
\* one iteration of the submission loop: three executor.submit + sleep
Submit ==
  /\ pc = "submit"
  /\ idx < Len(roster)
  /\ idx' = idx + 1
  /\ fut' = [j \in PageJobs |-> IF j[1] = idx + 1 THEN "queued" ELSE fut[j]]
  /\ pc' = IF idx + 1 = Len(roster) THEN "aeris" ELSE "submit"
  /\ UNCHANGED <<roster, FAILED_URLS, FAILED_URLS_AERIS, results, rescrape_count,
                 log, written, hist, fails, lastFetch, aeris_iterations, attempted,
                 save_raised, open_sessions, retried>>

PagePos(s) == CHOOSE p \in 1..3 : PageOrder[p] = s
JobIndex(j) == (j[1] - 1) * 3 + PagePos(j[2])
\* the jobs a worker thread is executing
Running == {j \in PageJobs : fut[j] \in {"running", "handled"}}

\* a pool that runs one job more than max_workers
WorkerCapPlusOne == max_workers + 1

\* ThreadPoolExecutor(max_workers=12)
WorkerCap == max_workers

\* a worker thread takes the oldest work item of the queue, while fewer than
\* cap jobs are running
StartJobCap(j, cap) ==
  /\ fut[j] = "queued"
  /\ \A o \in PageJobs : JobIndex(o) < JobIndex(j) => fut[o] # "queued"
  /\ Cardinality(Running) < cap
  /\ fut' = [fut EXCEPT ![j] = "running"]
  /\ UNCHANGED <<roster, pc, idx, FAILED_URLS, FAILED_URLS_AERIS, results,
                 rescrape_count, log, written, hist, fails, lastFetch,
                 aeris_iterations, attempted, save_raised, open_sessions, retried>>

\* the pool under a scheduler that runs at most MaxConcurrent threads at once
StartJob(j) == StartJobCap(j, Min(WorkerCap, MaxConcurrent))

\* the pool under a scheduler that runs every thread the pool has
PoolStartJob(j) == StartJobCap(j, WorkerCap)

\* The future of a call whose except branch has run.  While the main thread
\* is in the body of the with block it reads no future and the return of the
\* call is taken in the same step; once the main thread waits for the pool
\* (or is past it), the return is a step of its own, ReturnJob.
AfterHandler == IF pc \in {"submit", "aeris"} THEN "empty_df" ELSE "handled"

\* the worker runs the body of scrape_*(url, loc): a browser is started, the
\* page is fetched and parsed; on an error the except branch logs it and
\* appends to FAILED_URLS.  A successful call returns at once; an error the
\* handler did not catch would end the call and be kept by the future.
FinishJob(j) ==
  /\ fut[j] = "running"
  /\ \E ok \in BOOLEAN :
       /\ Explored(j, ok)
       /\ \E o \in Outcomes(j[2], roster[j[1]].url[j[2]], ok) :
            LET url == roster[j[1]].url[j[2]]
                l == roster[j[1]].WS
                after == IF o.caught
                         THEN FailedAfterScrape(FAILED_URLS, url, l, j[2], ok)
                         ELSE FAILED_URLS
            IN /\ fails' = FailsAfter(fails, j, ok)
               /\ fut' = [fut EXCEPT ![j] = IF ok THEN "df"
                                            ELSE IF o.caught THEN AfterHandler
                                            ELSE "exception"]
               /\ FAILED_URLS' = after
               /\ log' = IF o.caught THEN LogAfterScrape(log, l, j[2], ok) ELSE log
               /\ hist' = HistAfter(hist, j, ok)
               /\ lastFetch' = Fetched(o.waitExceeded, ok, after, <<url, l, j[2]>>)
               /\ open_sessions' = open_sessions + 1
  /\ UNCHANGED <<roster, pc, idx, FAILED_URLS_AERIS, results, rescrape_count,
                 written, aeris_iterations, attempted, save_raised, retried>>

\* return return_data after the except branch: the future gets the empty
\* DataFrame as its result
ReturnJob(j) ==
  /\ fut[j] = "handled"
  /\ fut' = [fut EXCEPT ![j] = "empty_df"]
  /\ UNCHANGED <<roster, pc, idx, FAILED_URLS, FAILED_URLS_AERIS, results,
                 rescrape_count, log, written, hist, fails, lastFetch,
                 aeris_iterations, attempted, save_raised, open_sessions, retried>>

\* a batch that stops at the first request that fails
AerisNextAbort(k, ok) == IF k = Len(roster) \/ ~ok THEN "shutdown" ELSE "aeris"

\* for tup in url_loc: the loop goes on to the next tuple whatever happened
AerisNext(k, ok) == IF k = Len(roster) THEN "shutdown" ELSE "aeris"

\* one iteration of the loop of scrape_aeris(list of all rows), run by the
\* main thread inside the with block
AerisRequest ==
  /\ pc = "aeris"
  /\ LET k == idx - Len(roster) + 1
         url == roster[k].url["Aeris"]
         l == roster[k].WS
     IN \E ok \in AerisEnvs(url) :
          LET trackers == TrackersAfterAeris(FAILED_URLS_AERIS, FAILED_URLS, url, l, ok)
              after == trackers.aeris
          IN /\ Explored(<<k, "Aeris">>, ok)
             /\ FAILED_URLS' = trackers.page
             /\ fails' = FailsAfter(fails, <<k, "Aeris">>, ok)
             /\ results' = [results EXCEPT !["Aeris"] =
                              IF ok THEN ListAppend(@, Table(l)) ELSE @]
             /\ FAILED_URLS_AERIS' = after
             /\ log' = LogAfterScrape(log, l, "Aeris", ok)
             /\ hist' = HistAfter(hist, <<k, "Aeris">>, ok)
             /\ lastFetch' = Fetched(FALSE, ok, after, <<url, l, "Aeris">>)
             /\ idx' = idx + 1
             /\ pc' = AerisNext(k, ok)
  /\ UNCHANGED <<roster, fut, rescrape_count, written,
                 aeris_iterations, attempted, save_raised, open_sessions, retried>>

\* a with block that does not wait for its futures
PoolIdleNoWait == TRUE

\* shutdown(wait=True) and wait(): every future submitted is done
PoolIdle == \A j \in PageJobs : fut[j] \in {"none", "df", "empty_df", "exception"}

\* leaving the with block: executor.shutdown(wait=True), then the three wait()
ExecutorExit ==
  /\ pc = "shutdown"
  /\ PoolIdle
  /\ pc' = "collect"
  /\ UNCHANGED <<roster, idx, fut, FAILED_URLS, FAILED_URLS_AERIS, results,
                 rescrape_count, log, written, hist, fails, lastFetch,
                 aeris_iterations, attempted, save_raised, open_sessions, retried>>

\* [x.result() for x in futures if isinstance(x.result(), pd.DataFrame)]
RECURSIVE Collect(_, _)
Collect(s, k) ==
  IF k = 0 THEN EmptyList
  ELSE ListAppend(Collect(s, k - 1),
                  IF fut[<<k, s>>] = "df" THEN Table(roster[k].WS) ELSE EmptyDataFrame)

\* x.result() raises the exception a future holds
ResultRaises == \E j \in PageJobs : fut[j] = "exception"

\* the result lists are built, the number of failed URLs is logged; an
\* exception raised by x.result() ends the program
CollectResults ==
  /\ pc = "collect"
  /\ IF ResultRaises
     THEN /\ pc' = "crashed"
          /\ UNCHANGED <<results, log, rescrape_count>>
     ELSE /\ results' = [s \in Sources |->
                           IF s \in PageSet THEN Collect(s, Len(roster)) ELSE results[s]]
          /\ log' = log \cup {FailedCount(Len(FAILED_URLS))}
          /\ rescrape_count' = 0
          /\ pc' = "rescrape"
  /\ UNCHANGED <<roster, idx, fut, FAILED_URLS, FAILED_URLS_AERIS, written,
                 hist, fails, lastFetch, aeris_iterations, attempted, save_raised,
                 open_sessions, retried>>

\* ------------------------------------------------------- re-scraping loops
\* the loop condition with the comparison off by one
RescrapeCondOffByOne(lst, c) == lst # <<>> /\ c <= RescrapeLimit

\* while FAILED_URLS and rescrape_count < 100
RescrapeCond(lst, c) == lst # <<>> /\ c < RescrapeLimit

\* the except branch of the loop, for an error scrape_* did not catch
FailedAfterLoopExcept(lst, entry) ==
  IF UrlInList(entry[1], lst) THEN lst ELSE Append(lst, entry)

\* one iteration: pop(0), scrape again (a browser is started), append what
\* the scraper returns
Rescrape ==
  /\ pc = "rescrape"
  /\ RescrapeCond(FAILED_URLS, rescrape_count)
  /\ LET entry == Head(FAILED_URLS)
         url == entry[1]
         l == entry[2]
         s == entry[3]
         j == <<l, s>>
     IN \E ok \in BOOLEAN : \E o \in Outcomes(s, url, ok) :
          LET caught == o.caught
              after == IF caught
                       THEN FailedAfterScrape(Tail(FAILED_URLS), url, l, s, ok)
                       ELSE FailedAfterLoopExcept(Tail(FAILED_URLS), entry)
          IN /\ Explored(j, ok)
             /\ fails' = FailsAfter(fails, j, ok)
             /\ rescrape_count' = rescrape_count + 1
             /\ FAILED_URLS' = after
             /\ results' = [results EXCEPT ![s] =
                              IF caught THEN ListAppend(@, ScrapeReturn(l, ok)) ELSE @]
             /\ log' = IF caught THEN LogAfterScrape(log, l, s, ok)
                       ELSE log \cup {RescrapingError(s, l)}
             /\ hist' = HistAfter(hist, j, ok)
             /\ lastFetch' = Fetched(o.waitExceeded, ok, after, entry)
             /\ open_sessions' = open_sessions + 1
             /\ retried' = retried \cup {j}
  /\ UNCHANGED <<roster, pc, idx, fut, FAILED_URLS_AERIS, written,
                 aeris_iterations, attempted, save_raised>>

\* the loop condition is false
RescrapeExit ==
  /\ pc = "rescrape"
  /\ ~RescrapeCond(FAILED_URLS, rescrape_count)
  /\ pc' = "aeris_report"
  /\ UNCHANGED <<roster, idx, fut, FAILED_URLS, FAILED_URLS_AERIS, results,
                 rescrape_count, log, written, hist, fails, lastFetch,
                 aeris_iterations, attempted, save_raised,
                 open_sessions, retried>>

\* the number of failed Aeris URLs is logged, rescrape_count = 0
AerisReport ==
  /\ pc = "aeris_report"
  /\ log' = log \cup {FailedAerisCount(Len(FAILED_URLS_AERIS))}
  /\ rescrape_count' = 0
  /\ pc' = "rescrape_aeris"
  /\ UNCHANGED <<roster, idx, fut, FAILED_URLS, FAILED_URLS_AERIS, results,
                 written, hist, fails, lastFetch, aeris_iterations, attempted,
                 save_raised,
                 open_sessions, retried>>

\* while FAILED_URLS_AERIS and rescrape_count < 100
AerisRescrapeCond(lstA, c) == lstA # <<>> /\ c < AerisRescrapeLimit

\* rescrape_count after one iteration of the Aeris loop
AerisCountAfter(c) == c

\* one iteration: pop(0), scrape_aeris([(url, loc)]), append the list returned;
\* scrape_aeris catches every error of its try body, so the except branch of
\* the loop is never entered
RescrapeAeris ==
  /\ pc = "rescrape_aeris"
  /\ AerisRescrapeCond(FAILED_URLS_AERIS, rescrape_count)
  /\ aeris_iterations < AerisIterCap
  /\ LET entry == Head(FAILED_URLS_AERIS)
         url == entry[1]
         l == entry[2]
         j == <<l, "Aeris">>
     IN \E ok \in AerisEnvs(url) :
          LET trackers == TrackersAfterAeris(Tail(FAILED_URLS_AERIS), FAILED_URLS,
                                             url, l, ok)
              after == trackers.aeris
              rescrape_result == ListOf(ScrapeReturn(l, ok))
          IN /\ Explored(j, ok)
             /\ fails' = FailsAfter(fails, j, ok)
             /\ FAILED_URLS_AERIS' = after
             /\ FAILED_URLS' = trackers.page
             /\ results' = [results EXCEPT !["Aeris"] = ListAppend(@, rescrape_result)]
             /\ log' = LogAfterScrape(log, l, "Aeris", ok)
             /\ hist' = HistAfter(hist, j, ok)
             /\ lastFetch' = Fetched(FALSE, ok, after, entry)
             /\ rescrape_count' = AerisCountAfter(rescrape_count)
             /\ aeris_iterations' = aeris_iterations + 1
             /\ retried' = retried \cup {j}
  /\ UNCHANGED <<roster, pc, idx, fut, written, attempted, save_raised,
                 open_sessions>>

RescrapeAerisExit ==
  /\ pc = "rescrape_aeris"
  /\ ~AerisRescrapeCond(FAILED_URLS_AERIS, rescrape_count)
  /\ pc' = "save"
  /\ idx' = 1
  /\ UNCHANGED <<roster, fut, FAILED_URLS, FAILED_URLS_AERIS, results,
                 rescrape_count, log, written, hist, fails, lastFetch,
                 aeris_iterations, attempted, save_raised,
                 open_sessions, retried>>

\* ------------------------------------------------------------------ saving
\* the list handed to pd.concat: every member for the page sources, the
\* members that are DataFrames for Aeris
Frames(s, r) ==
  IF s = "Aeris"
  THEN [r EXCEPT !.items = SelectSeq(@, LAMBDA x : x.kind = "df"), !.emptyLists = FALSE]
  ELSE r

\* pd.concat raises ValueError on an empty list
ConcatRaises(f) == f.items = <<>> /\ ~f.emptyDFs /\ ~f.emptyLists

\* the DataFrame pd.concat returns
Concat(f) == [n |-> SumRows(f.items), WS |-> {x.WS : x \in Range(f.items)}]

\* a frame that always has the WS column
HasWSColumnAlways(f) == TRUE

\* df["WS"] raises KeyError when no member had columns
HasWSColumn(f) == f.items # <<>>

\* one stage of the try block: concat, to_csv, log the stations saved; any
\* exception ends the block in its except branch
Save ==
  /\ pc = "save"
  /\ LET s == SaveOrder[idx]
         f == Frames(s, results[s])
         next == IF idx = Len(SaveOrder) THEN "done" ELSE "save"
     IN \E csv_ok \in BOOLEAN :
          IF ConcatRaises(f)
          THEN /\ log' = log \cup {SaveError}
               /\ save_raised' = s
               /\ pc' = "done"
               /\ UNCHANGED <<written, attempted, idx>>
          ELSE IF ~csv_ok
          THEN /\ log' = log \cup {SaveError}
               /\ save_raised' = s
               /\ attempted' = attempted \cup {s}
               /\ pc' = "done"
               /\ UNCHANGED <<written, idx>>
          ELSE IF ~HasWSColumn(f)
          THEN /\ log' = log \cup {SaveError}
               /\ save_raised' = s
               /\ attempted' = attempted \cup {s}
               /\ written' = [written EXCEPT ![s] =
                                [exists |-> TRUE, n |-> Concat(f).n, WS |-> Concat(f).WS]]
               /\ pc' = "done"
               /\ UNCHANGED idx
          ELSE /\ log' = log \cup {Saved(s, Cardinality(Concat(f).WS))}
               /\ attempted' = attempted \cup {s}
               /\ written' = [written EXCEPT ![s] =
                                [exists |-> TRUE, n |-> Concat(f).n, WS |-> Concat(f).WS]]
               /\ pc' = next
               /\ idx' = IF next = "save" THEN idx + 1 ELSE idx
               /\ UNCHANGED save_raised
  /\ UNCHANGED <<roster, fut, FAILED_URLS, FAILED_URLS_AERIS, results,
                 rescrape_count, hist, fails, lastFetch, aeris_iterations,
                 open_sessions, retried>>

\* ------------------------------------------------------------------- Spec
Next ==
  \/ Submit
  \/ \E j \in PageJobs : StartJob(j)
  \/ \E j \in PageJobs : FinishJob(j)
  \/ \E j \in PageJobs : ReturnJob(j)
  \/ AerisRequest
  \/ ExecutorExit
  \/ CollectResults
  \/ Rescrape
  \/ RescrapeExit
  \/ AerisReport
  \/ RescrapeAeris
  \/ RescrapeAerisExit
  \/ Save

Spec == Init /\ [][Next]_vars

\* The pool alone, for a roster with more jobs than workers and a scheduler
\* that runs every worker thread.  It starts where the submission loop has
\* queued the jobs of every row and scrape_aeris has returned the tables of
\* all rows, no worker having taken a job yet; it ends when the with block
\* is left.
InitPool ==
  /\ roster = PoolRoster
  /\ pc = "shutdown"
  /\ idx = 2 * PoolRows
  /\ fut = [j \in PageJobs |-> "queued"]
  /\ FAILED_URLS = <<>>
  /\ FAILED_URLS_AERIS = <<>>
  /\ results = [s \in Sources |->
                  IF s = "Aeris"
                  THEN [EmptyList EXCEPT !.items = [k \in 1..PoolRows |-> Table(k)]]
                  ELSE EmptyList]
  /\ rescrape_count = 0
  /\ log = {}
  /\ written = [s \in Sources |-> [exists |-> FALSE, n |-> 0, WS |-> {}]]
  /\ hist = [j \in AllJobs |-> IF j[2] = "Aeris" THEN "ok" ELSE "pending"]
  /\ fails = [j \in AllJobs |-> 0]
  /\ lastFetch = [waitExceeded |-> FALSE, ok |-> TRUE, tracked |-> FALSE,
                  urlTracked |-> FALSE]
  /\ aeris_iterations = 0
  /\ attempted = {}
  /\ save_raised = "none"
  /\ open_sessions = 1
  /\ retried = {}

NextPool ==
  \/ \E j \in PageJobs : PoolStartJob(j)
  \/ \E j \in PageJobs : FinishJob(j)
  \/ \E j \in PageJobs : ReturnJob(j)
  \/ ExecutorExit

SpecPool == InitPool /\ [][NextPool]_vars

\* The part after the with block, for a roster with more page jobs than
\* iterations of the page loop, none of which has a URL.  It starts where the
\* with block has been left: every worker has failed and returned, in the
\* order of submission, and scrape_aeris has returned the tables of all rows.
InitRetry ==
  /\ roster = RetryRoster
  /\ pc = "collect"
  /\ idx = 2 * RetryRows
  /\ fut = [j \in PageJobs |-> "empty_df"]
  /\ FAILED_URLS = [p \in 1..(3 * RetryRows) |->
                      <<NaN, ((p - 1) \div 3) + 1, PageOrder[((p - 1) % 3) + 1]>>]
  /\ FAILED_URLS_AERIS = <<>>
  /\ results = [s \in Sources |->
                  IF s = "Aeris"
                  THEN [EmptyList EXCEPT !.items = [k \in 1..RetryRows |-> Table(k)]]
                  ELSE EmptyList]
  /\ rescrape_count = 0
  /\ log = {ScrapingError(j[2], j[1]) : j \in PageJobs}
  /\ written = [s \in Sources |-> [exists |-> FALSE, n |-> 0, WS |-> {}]]
  /\ hist = [j \in AllJobs |-> IF j[2] = "Aeris" THEN "ok" ELSE "failed"]
  /\ fails = [j \in AllJobs |-> IF j[2] = "Aeris" THEN 0 ELSE 1]
  /\ lastFetch = [waitExceeded |-> FALSE, ok |-> FALSE, tracked |-> TRUE,
                  urlTracked |-> TRUE]
  /\ aeris_iterations = 0
  /\ attempted = {}
  /\ save_raised = "none"
  /\ open_sessions = 1 + 3 * RetryRows
  /\ retried = {}

NextRetry ==
  \/ CollectResults
  \/ Rescrape
  \/ RescrapeExit
  \/ AerisReport
  \/ RescrapeAerisExit
  \/ Save

SpecRetry == InitRetry /\ [][NextRetry]_vars

TypeOK == pc \in {"submit", "aeris", "shutdown", "collect", "crashed", "rescrape",
                  "aeris_report", "rescrape_aeris", "save", "done"}

\* ---------------------------------------------------------------- claims
Succeeded(j) == hist[j] \in {"ok", "recovered"}

\* the rows of the jobs of source s, among rows 1..k, that ever succeeded
RECURSIVE SuccessRows(_, _)
SuccessRows(s, k) ==
  IF k = 0 THEN 0
  ELSE SuccessRows(s, k - 1)
       + (IF Succeeded(<<k, s>>) THEN NRows(roster[k].WS) ELSE 0)

Tracker(s) == IF s = "Aeris" THEN FAILED_URLS_AERIS ELSE FAILED_URLS
TrackedFor(s) == {e \in Range(Tracker(s)) : e[3] = s}
ZeroSuccess(s) == \A k \in Rows : ~Succeeded(<<k, s>>)
StageOf(s) == CHOOSE p \in DOMAIN SaveOrder : SaveOrder[p] = s

\* C1: the Aeris re-scraping loop performs at most 100 iterations, whatever
\* the Aeris requests do.
C1_AerisLoopBounded == aeris_iterations <= AerisRescrapeLimit

\* C2: the page re-scraping loop never performs more than 100 iterations,
\* and when some page job failed in the initial wave and no re-scraped job
\* ever succeeded, the loop is left after exactly 100 iterations.
C2_PageLoopExactBound ==
  /\ rescrape_count <= RescrapeLimit
  /\ (/\ pc = "aeris_report"
      /\ \E j \in PageJobs : hist[j] = "failed"
      /\ \A j \in PageJobs : hist[j] # "recovered")
     => rescrape_count = RescrapeLimit

C2_Witness ==
  /\ pc = "aeris_report"
  /\ rescrape_count = RescrapeLimit
  /\ FAILED_URLS # <<>>
  /\ \A j \in PageJobs : hist[j] # "recovered"

\* C3: for every source, the table written at the end has as many rows as
\* the jobs of that source that ever succeeded (first attempt or retry)
\* produced, and none from jobs still failing.
C3_OutputRowsAreSuccessRows ==
  pc = "done" =>
    \A s \in Sources :
      written[s].exists => written[s].n = SuccessRows(s, Len(roster))

\* C4: with a roster of 3 rows, when one fetch of a source failed at first
\* and succeeded when re-scraped, every other fetch succeeded and no save
\* stage raised, the output of that source has rows of all 3 stations and
\* the tracker holds nothing of that source at the end.
C4_RecoveredJobIsInOutput ==
  \A s \in Sources : \A k \in Rows :
    (/\ pc = "done"
     /\ Len(roster) = 3
     /\ save_raised = "none"
     /\ hist[<<k, s>>] = "recovered"
     /\ \A j \in Rows \X Sources : j # <<k, s>> => hist[j] = "ok")
    => /\ written[s].WS = {roster[r].WS : r \in Rows}
       /\ TrackedFor(s) = {}

\* C5: no tracker ever holds two entries with the same endpoint of the
\* same source.
C5_NoDuplicateEndpoint ==
  \A lst \in {FAILED_URLS, FAILED_URLS_AERIS} :
    \A p, q \in DOMAIN lst :
      p # q => ~(lst[p][1] = lst[q][1] /\ lst[p][3] = lst[q][3])

\* C6: when the save stage of a source raised, the write of every other
\* source that holds at least one successful table was still attempted.
C6_OtherSourcesStillAttempted ==
  pc = "done" =>
    \A s \in Sources :
      save_raised = s =>
        \A t \in Sources \ {s} :
          (\E x \in Range(results[t].items) : x.kind = "df") => t \in attempted

\* C7 as stated: a source none of whose jobs ever succeeded gets a failed
\* save and no output file at all.
C7_NoArtifactOnZeroSuccess ==
  pc = "done" =>
    \A s \in Sources :
      ZeroSuccess(s) => (~written[s].exists /\ SaveError \in log)

\* C7 amended: a source none of whose jobs ever succeeded gets no row
\* written (its file is absent or is an empty file) and the save block ends
\* in its except branch, at the stage of that source or at an earlier one.
C7_NoRowsOnZeroSuccess ==
  pc = "done" =>
    \A s \in Sources :
      ZeroSuccess(s) =>
        /\ written[s].n = 0
        /\ written[s].WS = {}
        /\ SaveError \in log
        /\ save_raised \in Sources
        /\ StageOf(save_raised) <= StageOf(s)

C7_Witness ==
  /\ pc = "done"
  /\ \E s \in PageSet :
       /\ ZeroSuccess(s)
       /\ written[s].exists
       /\ save_raised = s

\* C8: at the end of the run every job left in a tracker has been reported
\* by a record, other than the per-attempt error records, that names it.
C8_LeftoversReported ==
  pc = "done" =>
    \A e \in Range(FAILED_URLS) \cup Range(FAILED_URLS_AERIS) :
      \E r \in log :
        r.tag # "Scraping Error" /\ r.loc = e[2] /\ r.src = e[3]

\* C9: a page fetch one of whose readiness waits exceeded its 30 s bound
\* returns no rows and is recorded in FAILED_URLS.
C9_TimeoutIsFailure ==
  lastFetch.waitExceeded => (~lastFetch.ok /\ lastFetch.tracked)

\* C10: a (row, source) pair whose roster cell is empty gets no job: it is
\* never submitted, never fetched and never enters a tracker.
C10_MissingEndpointSkipped ==
  \A k \in Rows : \A s \in Sources :
    roster[k].url[s] = NaN =>
      /\ s \in PageSet => fut[<<k, s>>] = "none"
      /\ hist[<<k, s>>] = "pending"
      /\ \A e \in Range(Tracker(s)) : ~(e[2] = roster[k].WS /\ e[3] = s)

\* the entry a fetch of (row, source) j leaves in a list when it fails
EntryOf(j) == <<roster[j[1]].url[j[2]], roster[j[1]].WS, j[2]>>
Terminated(j) == fut[j] \in {"df", "empty_df"}

\* C11: once the page fetches that ran have returned and no job is running,
\* no browser session is open.
C11_SessionsReleased ==
  (Running = {} /\ \E j \in PageJobs : Terminated(j)) => open_sessions = 0

\* C12: the iterations of the page loop available to the failed jobs of one
\* source do not depend on the other sources: when the loop ends at its bound
\* with a job of source s still in the list, every iteration was a retry of a
\* job of s.
C12_RetryBudgetPerSource ==
  (pc = "aeris_report" /\ rescrape_count = RescrapeLimit) =>
    \A s \in PageSet :
      TrackedFor(s) # {} => \A j \in retried : j[2] \in PageSet => j[2] = s

\* C13: at most max_workers (12) jobs are running at any time, however many
\* jobs were submitted.
C13_AtMostCapRunning == Cardinality(Running) <= max_workers

C13_Witness ==
  /\ Cardinality(Running) = max_workers
  /\ \E j \in PageJobs : fut[j] = "queued"

\* C14: a fetch that has not failed (not attempted yet, or succeeded on its
\* first attempt) has no entry in the list of its source.
C14_FirstTrySuccessNeverTracked ==
  \A j \in Rows \X Sources :
    hist[j] \in {"pending", "ok"} =>
      \A e \in Range(Tracker(j[2])) : ~(e[2] = roster[j[1]].WS /\ e[3] = j[2])

C14_Witness ==
  \E j \in Rows \X Sources :
    /\ hist[j] = "ok"
    /\ TrackedFor(j[2]) # {}

\* C15: once the results of the initial wave have been read, every job that
\* was submitted to the pool has returned.
C15_ResultsReadAfterWave ==
  pc \in {"rescrape", "aeris_report", "rescrape_aeris", "save", "done"} =>
    \A j \in Rows \X PageSet : Terminated(j)

C15_Witness ==
  /\ pc = "rescrape"
  /\ rescrape_count = 0
  /\ \E j \in Rows \X PageSet : fut[j] = "empty_df"
  /\ \E j \in Rows \X PageSet : fut[j] = "df"

\* C16: a fetch that a loop ran again had returned from its initial attempt
\* before: a page job's future was done, the Aeris batch was over.
C16_RetryAfterInitialAttempt ==
  \A j \in retried :
    IF j[2] \in PageSet THEN Terminated(j)
    ELSE hist[j] # "pending" /\ pc \notin {"submit", "aeris", "shutdown", "collect"}

C16_Witness ==
  /\ \E j \in retried : j[2] \in PageSet
  /\ \E j \in retried : j[2] = "Aeris"

\* C17: a page fetch that raises is turned into a failure: no future holds
\* an exception and reading the results does not end the program, a fetch
\* that returned no rows has its entry in FAILED_URLS when it returns, and
\* the result lists hold rows of fetches that succeeded only.
C17_ErrorBecomesFailure ==
  /\ pc # "crashed"
  /\ \A j \in PageJobs : fut[j] # "exception"
  /\ ~lastFetch.ok => lastFetch.tracked
  /\ \A j \in Rows \X PageSet : fut[j] \in {"handled", "empty_df"} => hist[j] # "pending"
  /\ \A s \in PageSet : \A x \in Range(results[s].items) : Succeeded(<<x.WS, s>>)

C17_Witness ==
  /\ pc = "rescrape"
  /\ rescrape_count = 0
  /\ \E j \in Rows \X PageSet :
       /\ fut[j] = "empty_df"
       /\ EntryOf(j) \in Range(FAILED_URLS)
       /\ results[j[2]].emptyDFs
       /\ \A x \in Range(results[j[2]].items) : x.WS # roster[j[1]].WS

\* C18: the Aeris batch issues its requests one after the other in roster
\* order, and after the batch every row has been requested: a request that
\* failed is in FAILED_URLS_AERIS and not in the result list, a request that
\* succeeded is in the result list.
C18_AerisBatchIsolated ==
  /\ pc = "aeris" =>
       \A k \in Rows : (hist[<<k, "Aeris">>] # "pending") <=> (k <= idx - Len(roster))
  /\ pc \in {"shutdown", "collect", "rescrape", "aeris_report"} =>
       \A k \in Rows :
         LET j == <<k, "Aeris">>
             inResults == \E x \in Range(results["Aeris"].items) : x.WS = roster[k].WS
         IN /\ hist[j] \in {"ok", "failed"}
            /\ hist[j] = "failed" => (EntryOf(j) \in Range(FAILED_URLS_AERIS) /\ ~inResults)
            /\ hist[j] = "ok" => inResults

C18_Witness ==
  /\ pc = "shutdown"
  /\ Len(roster) >= 2
  /\ hist[<<1, "Aeris">>] = "failed"
  /\ hist[<<2, "Aeris">>] = "ok"

\* C19: every iteration of the page loop retries the job at the head of
\* FAILED_URLS; the list afterwards is its tail if the retry succeeded, and
\* its tail followed by that job if the retry failed.
C19_RetryFifo ==
  [][(pc = "rescrape" /\ rescrape_count' = rescrape_count + 1) =>
       /\ <<Head(FAILED_URLS)[2], Head(FAILED_URLS)[3]>> \in retried'
       /\ FAILED_URLS' = IF lastFetch'.ok THEN Tail(FAILED_URLS)
                         ELSE Append(Tail(FAILED_URLS), Head(FAILED_URLS))]_vars

C19_Witness ==
  /\ pc = "rescrape"
  /\ rescrape_count >= 3
  /\ Len(FAILED_URLS) >= 2
  /\ \E j \in PageJobs : hist[j] = "recovered"

\* C20: after a fetch that succeeded, no list holds an entry of the URL
\* (and source) that was fetched.
C20_TrackedMeansLastFailed == lastFetch.ok => ~lastFetch.urlTracked

JobOf(e) == <<e[2], e[3]>>
ItemsWithRows(s) == {p \in DOMAIN results[s].items : results[s].items[p].n > 0}

\* C21: a (row, source) fetch that has succeeded is in no failure list and in
\* no queue, so no loop fetches it again; a result list holds the rows of a
\* station at most once, and a file written holds no more rows than the
\* fetches that succeeded returned.
C21_SuccessIsTerminal ==
  /\ \A e \in Range(FAILED_URLS) \cup Range(FAILED_URLS_AERIS) : ~Succeeded(JobOf(e))
  /\ \A j \in PageJobs : Succeeded(j) => fut[j] \notin {"queued", "running", "handled"}
  /\ \A s \in Sources : \A p, q \in ItemsWithRows(s) :
       results[s].items[p].WS = results[s].items[q].WS => p = q
  /\ \A s \in Sources : written[s].exists => written[s].n <= SuccessRows(s, Len(roster))

C21_Witness ==
  /\ pc = "done"
  /\ \E j \in PageJobs :
       /\ hist[j] = "recovered"
       /\ written[j[2]].exists
       /\ roster[j[1]].WS \in written[j[2]].WS

AerisFetchStep ==
  \/ pc = "aeris" /\ idx' = idx + 1
  \/ pc = "rescrape_aeris" /\ aeris_iterations' = aeris_iterations + 1
PageFetchStep == open_sessions' = open_sessions + 1

\* C22: an Aeris request, of the batch or of the Aeris loop, leaves
\* FAILED_URLS as it was whatever its outcome, and one that failed has its
\* entry in FAILED_URLS_AERIS; a page fetch, of the pool or of the page loop,
\* leaves FAILED_URLS_AERIS as it was.
C22_TrackersSeparate ==
  [][/\ AerisFetchStep =>
          /\ FAILED_URLS' = FAILED_URLS
          /\ ~lastFetch'.ok => lastFetch'.tracked
     /\ PageFetchStep => FAILED_URLS_AERIS' = FAILED_URLS_AERIS]_vars

C22_Witness ==
  /\ pc = "rescrape_aeris"
  /\ aeris_iterations >= 1
  /\ ~lastFetch.ok
  /\ FAILED_URLS # <<>>
  /\ FAILED_URLS_AERIS # <<>>

WaveOver == pc = "collect" \/ (pc = "rescrape" /\ rescrape_count = 0)
FailedInWave == {j \in PageJobs : fut[j] = "empty_df"}

\* C23: when the pool has run every job and no retry has been made yet,
\* FAILED_URLS holds one entry for every job whose call returned no rows
\* and no other entry, in whatever order the workers finished.
C23_NoFailureLost ==
  WaveOver =>
    /\ Range(FAILED_URLS) = {EntryOf(j) : j \in FailedInWave}
    /\ Len(FAILED_URLS) = Cardinality(FailedInWave)

\* two jobs failed, the one submitted later finished first, a third succeeded
C23_Witness ==
  /\ pc = "collect"
  /\ \E p, q \in DOMAIN FAILED_URLS :
       p < q /\ JobIndex(JobOf(FAILED_URLS[p])) > JobIndex(JobOf(FAILED_URLS[q]))
  /\ \E j \in PageJobs : fut[j] = "df"

\* C24: when the outputs are written, every page job that failed in the
\* pool has been run again by the page loop.
C24_EveryFailedJobRetried ==
  pc \in {"save", "done"} => FailedInWave \subseteq retried

====
